---- MODULE Spec2Model ----
(***************************************************************************)
(* Model of src/template_parser.rs: the construction of a commit template  *)
(* renderer from a pest syntax tree (parse_commit_template and the         *)
(* functions below it), and the rendering of the built renderer against a  *)
(* commit.                                                                 *)
(*                                                                         *)
(* A text (Rust String) is a sequence of atoms: one-character strings,     *)
(* and the text of an identifier node as a single atom.  A syntax tree     *)
(* node (pest Pair<Rule>) is a record with a `rule` field.  A panic        *)
(* is a record [tag |-> "panic", msg, token]: msg is the fixed part of the *)
(* panic message and token the name interpolated into it.                  *)
(***************************************************************************)
EXTENDS Integers, Sequences, FiniteSets, TLC

(* ----------------------------------------------------------------------- *)
(* Bounds of the enumerated inputs                                         *)
(* ----------------------------------------------------------------------- *)
MaxChain == 2
MaxArgs == 4
MaxTerms == 3

(* ----------------------------------------------------------------------- *)
(* Texts                                                                   *)
(* ----------------------------------------------------------------------- *)
NL == "\n"
IsWhitespace(ch) == ch \in {" ", NL}

RECURSIVE Concat(_)
Concat(texts) ==
    IF texts = <<>> THEN <<>> ELSE Head(texts) \o Concat(Tail(texts))

(* str::lines().next(): the text before the first line feed; no line at    *)
(* all for the empty text.                                                 *)
RECURSIVE UpToNewline(_)
UpToNewline(s) ==
    IF s = <<>> \/ Head(s) = NL THEN <<>> ELSE <<Head(s)>> \o UpToNewline(Tail(s))

lines_next(s) ==
    IF s = <<>> THEN [some |-> FALSE, val |-> <<>>]
    ELSE [some |-> TRUE, val |-> UpToNewline(s)]

(* str::split_whitespace(): the maximal runs of non-whitespace characters, *)
(* in order.  `word` is the run being read.                                *)
RECURSIVE SplitFrom(_, _)
SplitFrom(s, word) ==
    IF s = <<>> THEN (IF word = <<>> THEN <<>> ELSE <<word>>)
    ELSE IF IsWhitespace(Head(s))
         THEN (IF word = <<>> THEN <<>> ELSE <<word>>) \o SplitFrom(Tail(s), <<>>)
         ELSE SplitFrom(Tail(s), Append(word, Head(s)))

split_whitespace(s) == SplitFrom(s, <<>>)

(* ----------------------------------------------------------------------- *)
(* Panics                                                                  *)
(* ----------------------------------------------------------------------- *)
Panic(msg, token) == [tag |-> "panic", msg |-> msg, token |-> token]
IsPanic(x) == x.tag = "panic"
UnwrapNone == Panic("called Option::unwrap on a None value", "")

(* ----------------------------------------------------------------------- *)
(* parse_string_literal                                                    *)
(* ----------------------------------------------------------------------- *)
RECURSIVE UnescapeParts(_, _)
UnescapeParts(parts, result) ==
    IF parts = <<>> THEN [tag |-> "ok", text |-> result]
    ELSE LET part == Head(parts) IN
         IF part.rule = "raw_literal"
         THEN UnescapeParts(Tail(parts), result \o part.str)
         ELSE IF part.rule = "escape"
         THEN LET char == part.str[2] IN
              IF char = "\"" THEN UnescapeParts(Tail(parts), Append(result, "\""))
              ELSE IF char = "\\" THEN UnescapeParts(Tail(parts), Append(result, "\\"))
              ELSE IF char = "n" THEN UnescapeParts(Tail(parts), Append(result, NL))
              ELSE Panic("invalid escape", char)
         ELSE Panic("unexpected part of string", part.rule)

parse_string_literal(pair) == UnescapeParts(pair.parts, <<>>)

(* ----------------------------------------------------------------------- *)
(* Property (the value model), PropertyAndLabels, Expression               *)
(* ----------------------------------------------------------------------- *)
Kinds == {"String", "Boolean", "CommitOrChangeId", "IdWithHighlightedPrefix",
          "Signature", "Timestamp"}

Property(kind, property) == [tag |-> "ok", kind |-> kind, property |-> property]
PropertyAndLabels(property, labels) ==
    [tag |-> "ok", property |-> property, labels |-> labels]
ExpressionProperty(pl) == [tag |-> "Property", pl |-> pl]
ExpressionTemplate(template) == [tag |-> "Template", template |-> template]

(* TemplateProperty implementations, as data: the evaluator is run by      *)
(* Extract only.                                                           *)
Literal(text) == [p |-> "Literal", text |-> text]
KeywordProperty(name) == [p |-> "Keyword", name |-> name]
TemplatePropertyFn(f) == [p |-> "TemplatePropertyFn", f |-> f]
TemplateFunction(first, fn) == [p |-> "TemplateFunction", first |-> first, fn |-> fn]

(* ----------------------------------------------------------------------- *)
(* Commits: the records a renderer is run on.  A commit has one field per  *)
(* keyword of parse_commit_keyword, holding the value of that accessor.    *)
(* ----------------------------------------------------------------------- *)
Id(hex, prefix_len) == [hex |-> hex, prefix_len |-> prefix_len]
Signature(name, email, timestamp) ==
    [name |-> name, email |-> email, timestamp |-> timestamp]

CommitOf(description, id, author, flag) ==
    [description |-> description,
     change_id |-> Id(<<"k", "z">>, 1), commit_id |-> id,
     author |-> author, committer |-> Signature(<<"c">>, <<>>, 0),
     working_copies |-> <<>>, current_working_copy |-> flag,
     branches |-> IF flag THEN <<"m">> ELSE <<>>, tags |-> <<>>,
     git_refs |-> <<>>, git_head |-> <<>>,
     divergent |-> FALSE, conflict |-> ~flag, empty |-> flag]

Commits ==
    { CommitOf(<<>>, Id(<<"a", "b">>, 1), Signature(<<"a">>, <<"a", "@">>, 0), TRUE),
      CommitOf(<<"a", " ", "b">>, Id(<<"b", "a">>, 2), Signature(<<>>, <<>>, 1), FALSE),
      CommitOf(<<"b", NL, "a">>, Id(<<"a", "b">>, 1), Signature(<<"b">>, <<>>, 1), TRUE),
      CommitOf(<<NL>>, Id(<<"b", "b">>, 2), Signature(<<"a", " ", "b">>, <<"@">>, 0), FALSE) }

(* ----------------------------------------------------------------------- *)
(* Running an evaluator: TemplateProperty::extract                         *)
(* ----------------------------------------------------------------------- *)
Some(v) == [ok |-> TRUE, val |-> v]
Aborted(msg) == [ok |-> FALSE, msg |-> msg]

Min(a, b) == IF a < b THEN a ELSE b

(* The closures handed to wrap_fn by the method tables *)
ApplyFn(f, value) ==
    IF f = "first_line"
    THEN LET line == lines_next(value) IN
         IF line.some THEN Some(line.val) ELSE Aborted("unwrap on None in first_line")
    ELSE IF f = "short" THEN Some(SubSeq(value.hex, 1, Min(12, Len(value.hex))))
    ELSE IF f = "shortest_prefix_and_brackets"
    THEN LET prefix == SubSeq(value.hex, 1, value.prefix_len)
             rest == SubSeq(value.hex, value.prefix_len + 1, Len(value.hex))
         IN Some(IF rest = <<>> THEN prefix ELSE prefix \o <<"[">> \o rest \o <<"]">>)
    ELSE IF f = "shortest_styled_prefix"
    THEN Some([prefix |-> SubSeq(value.hex, 1, value.prefix_len),
               rest |-> SubSeq(value.hex, value.prefix_len + 1, Len(value.hex))])
    ELSE IF f = "name" THEN Some(value.name)
    ELSE IF f = "email" THEN Some(value.email)
    ELSE IF f = "timestamp" THEN Some(value.timestamp)
    ELSE Some(IF value = 0 THEN <<"n", "o", "w">> ELSE <<"a", "g", "o">>)

RECURSIVE Extract(_, _)
Extract(property, context) ==
    IF property.p = "Literal" THEN Some(property.text)
    ELSE IF property.p = "Keyword" THEN Some(context[property.name])
    ELSE IF property.p = "TemplatePropertyFn" THEN ApplyFn(property.f, context)
    ELSE LET value == Extract(property.first, context) IN
         IF ~value.ok THEN value
         ELSE IF property.fn.c = "extract" THEN Extract(property.fn.second, value.val)
         ELSE Some(value.val # <<>>)

(* after, with the method run at construction when the receiver is a       *)
(* literal (an eager composition)                                          *)
after_eager(self, first) ==
    IF first.p = "Literal"
    THEN LET value == Extract(self.property, first.text) IN
         IF value.ok THEN [tag |-> "ok", kind |-> self.kind,
                           property |-> [p |-> "Literal", text |-> value.val]]
         ELSE [tag |-> "panic", msg |-> "unwrap on None in first_line", token |-> ""]
    ELSE [tag |-> "ok", kind |-> self.kind,
          property |-> [p |-> "TemplateFunction", first |-> first,
                        fn |-> [c |-> "extract", second |-> self.property]]]

(* Property::after and its inner fn chain: the closure that runs `second`  *)
(* on the value of `first` is built, not run.                              *)
chain(first, second) == TemplateFunction(first, [c |-> "extract", second |-> second])

after(self, first) == Property(self.kind, chain(first, self.property))

(* try_into_boolean, with every kind but Boolean coerced by emptiness *)
try_into_boolean_any(self) ==
    IF self.kind = "Boolean"
    THEN [some |-> TRUE, val |-> self.property]
    ELSE [some |-> TRUE,
          val |-> [p |-> "TemplateFunction", first |-> self.property,
                   fn |-> [c |-> "not_is_empty"]]]

(* Property::try_into_boolean: Some(evaluator) or None *)
try_into_boolean(self) ==
    IF self.kind = "String"
    THEN [some |-> TRUE,
          val |-> TemplateFunction(self.property, [c |-> "not_is_empty"])]
    ELSE IF self.kind = "Boolean"
    THEN [some |-> TRUE, val |-> self.property]
    ELSE [some |-> FALSE]

(* Template implementations, as data: the renderer is run by Format only.  *)
FormattablePropertyTemplate(kind, property) ==
    [t |-> "FormattablePropertyTemplate", kind |-> kind, property |-> property]
LabelTemplate(content, labels) ==
    [t |-> "LabelTemplate", content |-> content, labels |-> labels]
LiteralTemplate(text) == [t |-> "Literal", text |-> text]
ListTemplate(templates) == [t |-> "ListTemplate", templates |-> templates]
ConditionalTemplate(condition, true_template, false_template) ==
    [t |-> "ConditionalTemplate", condition |-> condition,
     true_template |-> true_template, false_template |-> false_template]
DynamicLabelTemplate(content, label_template) ==
    [t |-> "DynamicLabelTemplate", content |-> content,
     label_template |-> label_template]

Property_into_template(self) == FormattablePropertyTemplate(self.kind, self.property)

PropertyAndLabels_into_template(self) ==
    IF self.labels = <<>>
    THEN Property_into_template(self.property)
    ELSE LabelTemplate(Property_into_template(self.property), self.labels)

Expression_try_into_boolean(self) ==
    IF self.tag = "Property" THEN try_into_boolean(self.pl.property)
    ELSE [some |-> FALSE]

Expression_into_template(self) ==
    IF self.tag = "Property" THEN PropertyAndLabels_into_template(self.pl)
    ELSE self.template

(* ----------------------------------------------------------------------- *)
(* Method dispatch tables                                                  *)
(* ----------------------------------------------------------------------- *)
parse_string_method(name, args) ==
    IF name.name = "first_line"
    THEN Property("String", TemplatePropertyFn("first_line"))
    ELSE Panic("no such string method", name.name)

parse_boolean_method(name, args) == Panic("no such boolean method", name.name)

parse_commit_or_change_id_method(name, args) ==
    IF name.name = "short"
    THEN Property("String", TemplatePropertyFn("short"))
    ELSE IF name.name = "shortest_prefix_and_brackets"
    THEN Property("String", TemplatePropertyFn("shortest_prefix_and_brackets"))
    ELSE IF name.name = "shortest_styled_prefix"
    THEN Property("IdWithHighlightedPrefix", TemplatePropertyFn("shortest_styled_prefix"))
    ELSE Panic("no such commit ID method", name.name)

parse_signature_method(name, args) ==
    IF name.name = "name"
    THEN Property("String", TemplatePropertyFn("name"))
    ELSE IF name.name = "email"
    THEN Property("String", TemplatePropertyFn("email"))
    ELSE IF name.name = "timestamp"
    THEN Property("Timestamp", TemplatePropertyFn("timestamp"))
    ELSE Panic("no such commit ID method", name.name)

parse_timestamp_method(name, args) ==
    IF name.name = "ago"
    THEN Property("String", TemplatePropertyFn("ago"))
    ELSE Panic("no such timestamp method", name.name)

(* MethodAfter, with a styled id dispatched to the commit id methods *)
MethodAfter_styled_dispatch(property, chain_pair) ==
    LET name == chain_pair.name
        args == chain_pair.args
        method ==
            IF property.kind = "String" THEN parse_string_method(name, args)
            ELSE IF property.kind = "Boolean" THEN parse_boolean_method(name, args)
            ELSE IF property.kind \in {"CommitOrChangeId", "IdWithHighlightedPrefix"}
            THEN parse_commit_or_change_id_method(name, args)
            ELSE IF property.kind = "Signature" THEN parse_signature_method(name, args)
            ELSE parse_timestamp_method(name, args)
    IN IF IsPanic(method) THEN method ELSE after(method, property.property)

(* The body of parse_method_chain's loop: `chain` is the function node of  *)
(* one call; the result is the new property or the panic.                  *)
MethodAfter(property, chain_pair) ==
    LET name == chain_pair.name
        args == chain_pair.args
        method ==
            IF property.kind = "String" THEN parse_string_method(name, args)
            ELSE IF property.kind = "Boolean" THEN parse_boolean_method(name, args)
            ELSE IF property.kind = "CommitOrChangeId"
            THEN parse_commit_or_change_id_method(name, args)
            ELSE IF property.kind = "IdWithHighlightedPrefix"
            THEN Panic("Commit or change ids with styled prefix don't have any methods", "")
            ELSE IF property.kind = "Signature" THEN parse_signature_method(name, args)
            ELSE parse_timestamp_method(name, args)
    IN IF IsPanic(method) THEN method ELSE after(method, property.property)

(* ChainLoop, with a method name pushed only if it is not a label yet *)
RECURSIVE ChainLoop_dedup(_, _, _)
ChainLoop_dedup(calls, property, labels) ==
    IF calls = <<>> THEN PropertyAndLabels(property, labels)
    ELSE LET next == MethodAfter(property, Head(calls))
             label == <<Head(calls).name.name>>
         IN IF IsPanic(next) THEN next
            ELSE ChainLoop_dedup(Tail(calls), next,
                    IF \E i \in 1..Len(labels) : labels[i] = label THEN labels
                    ELSE Append(labels, label))

RECURSIVE ChainLoop(_, _, _)
ChainLoop(calls, property, labels) ==
    IF calls = <<>> THEN PropertyAndLabels(property, labels)
    ELSE LET next == MethodAfter(property, Head(calls)) IN
         IF IsPanic(next) THEN next
         ELSE ChainLoop(Tail(calls), next, Append(labels, <<Head(calls).name.name>>))

parse_method_chain(pair, input_property) ==
    ChainLoop(pair.calls, input_property.property, input_property.labels)

(* ----------------------------------------------------------------------- *)
(* parse_commit_keyword                                                    *)
(* ----------------------------------------------------------------------- *)
StringKeywords == {"description", "working_copies", "branches", "tags", "git_refs",
                   "git_head"}
IdKeywords == {"change_id", "commit_id"}
SignatureKeywords == {"author", "committer"}
BooleanKeywords == {"current_working_copy", "divergent", "conflict", "empty"}

parse_commit_keyword(pair) ==
    LET kind == IF pair.name \in StringKeywords THEN "String"
                ELSE IF pair.name \in IdKeywords THEN "CommitOrChangeId"
                ELSE IF pair.name \in SignatureKeywords THEN "Signature"
                ELSE IF pair.name \in BooleanKeywords THEN "Boolean"
                ELSE "none"
    IN IF kind = "none" THEN Panic("unexpected identifier", pair.name)
       ELSE PropertyAndLabels(Property(kind, KeywordProperty(pair.name)), <<<<pair.name>>>>)

(* ----------------------------------------------------------------------- *)
(* parse_commit_term and parse_commit_template_rule                        *)
(* ----------------------------------------------------------------------- *)
RECURSIVE parse_commit_term(_)
RECURSIVE parse_commit_template_rule(_)
RECURSIVE ParseTerms(_)

(* inner.map(|term| parse_commit_term(..)).collect_vec(): the expressions  *)
(* of the terms in order, or the first panic.                              *)
ParseTerms(terms) ==
    IF terms = <<>> THEN [tag |-> "ok", expressions |-> <<>>]
    ELSE LET first == parse_commit_term(Head(terms)) IN
         IF IsPanic(first) THEN first
         ELSE LET rest == ParseTerms(Tail(terms)) IN
              IF IsPanic(rest) THEN rest
              ELSE [tag |-> "ok", expressions |-> <<first>> \o rest.expressions]

(* parse_commit_template_rule, with a single term wrapped in a list too *)
parse_commit_template_rule_list(pair) ==
    LET parsed == ParseTerms(pair.terms) IN
    IF IsPanic(parsed) THEN parsed
    ELSE ExpressionTemplate(ListTemplate(
            [i \in 1..Len(parsed.expressions) |->
                Expression_into_template(parsed.expressions[i])]))

parse_commit_template_rule(pair) ==
    LET parsed == ParseTerms(pair.terms) IN
    IF IsPanic(parsed) THEN parsed
    ELSE IF Len(parsed.expressions) = 1 THEN parsed.expressions[1]
    ELSE ExpressionTemplate(ListTemplate(
            [i \in 1..Len(parsed.expressions) |->
                Expression_into_template(parsed.expressions[i])]))

(* ParseLabel, without the check for a third argument *)
ParseLabel_extra_args(args) ==
    IF Len(args) < 1 THEN UnwrapNone
    ELSE LET label_expr == parse_commit_template_rule(args[1]) IN
    IF IsPanic(label_expr) THEN label_expr
    ELSE IF Len(args) < 2 THEN Panic("label() requires two arguments", "")
    ELSE LET content == parse_commit_template_rule(args[2]) IN
    IF IsPanic(content) THEN content
    ELSE ExpressionTemplate(DynamicLabelTemplate(
            Expression_into_template(content), Expression_into_template(label_expr)))

(* The "label" arm of parse_commit_term *)
ParseLabel(args) ==
    IF Len(args) < 1 THEN UnwrapNone
    ELSE LET label_expr == parse_commit_template_rule(args[1]) IN
    IF IsPanic(label_expr) THEN label_expr
    ELSE IF Len(args) < 2 THEN Panic("label() requires two arguments", "")
    ELSE IF Len(args) > 2 THEN Panic("label() accepts only two arguments", "")
    ELSE LET content == parse_commit_template_rule(args[2]) IN
    IF IsPanic(content) THEN content
    ELSE ExpressionTemplate(DynamicLabelTemplate(
            Expression_into_template(content), Expression_into_template(label_expr)))

(* ParseIf, with the two branches handed over in the wrong order *)
ParseIf_swapped(args) ==
    IF Len(args) < 1 THEN UnwrapNone
    ELSE LET cond_expr == parse_commit_template_rule(args[1]) IN
    IF IsPanic(cond_expr) THEN cond_expr
    ELSE LET condition == Expression_try_into_boolean(cond_expr) IN
    IF ~condition.some THEN Panic("cannot yet use this as boolean", "")
    ELSE IF Len(args) < 2 THEN Panic("if() requires at least two arguments", "")
    ELSE LET true_expr == parse_commit_template_rule(args[2]) IN
    IF IsPanic(true_expr) THEN true_expr
    ELSE LET false_expr == IF Len(args) < 3 THEN [tag |-> "None"]
                           ELSE parse_commit_template_rule(args[3]) IN
    IF IsPanic(false_expr) THEN false_expr
    ELSE IF Len(args) > 3 THEN Panic("if() accepts at most three arguments", "")
    ELSE IF false_expr.tag = "None"
    THEN ExpressionTemplate(ConditionalTemplate(
            condition.val, Expression_into_template(true_expr), <<>>))
    ELSE ExpressionTemplate(ConditionalTemplate(
            condition.val,
            Expression_into_template(false_expr),
            <<Expression_into_template(true_expr)>>))

(* The "if" arm of parse_commit_term *)
ParseIf(args) ==
    IF Len(args) < 1 THEN UnwrapNone
    ELSE LET cond_expr == parse_commit_template_rule(args[1]) IN
    IF IsPanic(cond_expr) THEN cond_expr
    ELSE LET condition == Expression_try_into_boolean(cond_expr) IN
    IF ~condition.some THEN Panic("cannot yet use this as boolean", "")
    ELSE IF Len(args) < 2 THEN Panic("if() requires at least two arguments", "")
    ELSE LET true_expr == parse_commit_template_rule(args[2]) IN
    IF IsPanic(true_expr) THEN true_expr
    ELSE LET false_expr == IF Len(args) < 3 THEN [tag |-> "None"]
                           ELSE parse_commit_template_rule(args[3]) IN
    IF IsPanic(false_expr) THEN false_expr
    ELSE IF Len(args) > 3 THEN Panic("if() accepts at most three arguments", "")
    ELSE ExpressionTemplate(ConditionalTemplate(
            condition.val,
            Expression_into_template(true_expr),
            IF false_expr.tag = "None" THEN <<>>
            ELSE <<Expression_into_template(false_expr)>>))

parse_commit_term(pair) ==
    LET expr == pair.expr
        maybe_method == pair.maybe_method
    IN IF expr.rule = "literal"
       THEN LET text == parse_string_literal(expr) IN
            IF IsPanic(text) THEN text
            ELSE LET term == PropertyAndLabels(Property("String", Literal(text.text)), <<>>)
                     chained == parse_method_chain(maybe_method, term)
                 IN IF IsPanic(chained) THEN chained ELSE ExpressionProperty(chained)
       ELSE IF expr.rule = "identifier"
       THEN LET term == parse_commit_keyword(expr) IN
            IF IsPanic(term) THEN term
            ELSE LET chained == parse_method_chain(maybe_method, term)
                 IN IF IsPanic(chained) THEN chained ELSE ExpressionProperty(chained)
       ELSE IF expr.rule = "function"
       THEN IF expr.name.name = "label" THEN ParseLabel(expr.args)
            ELSE IF expr.name.name = "if" THEN ParseIf(expr.args)
            ELSE Panic("function not implemented", expr.name.name)
       ELSE IF expr.rule = "template" THEN parse_commit_template_rule(expr)
       ELSE Panic("unexpected term", expr.rule)

(* ----------------------------------------------------------------------- *)
(* parse_commit_template: `pairs` is the program's pairs, <<EOI>> for an   *)
(* empty program.  The expression of the top-level template is kept        *)
(* beside the renderer made of it.                                         *)
(* ----------------------------------------------------------------------- *)
TopExpression(first_pair) ==
    IF first_pair.rule = "EOI" THEN [tag |-> "None"]
    ELSE parse_commit_template_rule(first_pair)

(* the renderer made of the top-level expression: a zero-length Literal    *)
(* for an empty program, into_template() of the expression otherwise       *)
Realized(e) ==
    IF e.tag = "None" THEN [tag |-> "ok", template |-> LiteralTemplate(<<>>)]
    ELSE IF IsPanic(e) THEN e
    ELSE [tag |-> "ok", template |-> Expression_into_template(e)]

parse_commit_template(first_pair) == Realized(TopExpression(first_pair))

(* ----------------------------------------------------------------------- *)
(* Running a renderer: Template::format.  The output is the sequence of    *)
(* non-empty writes to the formatter, each with the labels in force.       *)
(* ----------------------------------------------------------------------- *)
Emit(text, labels) ==
    IF text = <<>> THEN <<>> ELSE <<[text |-> text, labels |-> labels]>>

FormatValue(kind, value, labels) ==
    IF kind = "String" THEN Emit(value, labels)
    ELSE IF kind = "Boolean"
    THEN Emit(IF value THEN <<"t", "r", "u", "e">> ELSE <<"f", "a", "l", "s", "e">>, labels)
    ELSE IF kind = "CommitOrChangeId" THEN Emit(value.hex, labels)
    ELSE IF kind = "IdWithHighlightedPrefix"
    THEN Emit(value.prefix, Append(labels, <<"prefix">>))
         \o Emit(value.rest, Append(labels, <<"rest">>))
    ELSE IF kind = "Signature" THEN Emit(value.name, labels)
    ELSE Emit(IF value = 0 THEN <<"0">> ELSE <<"1">>, labels)

RECURSIVE PlainText(_)
PlainText(out) == IF out = <<>> THEN <<>> ELSE Head(out).text \o PlainText(Tail(out))

(* get_labels, with the rendered text taken as one label *)
get_labels_unsplit(label_out) == <<PlainText(label_out)>>

(* get_labels of the "label" arm: the label template rendered to a         *)
(* PlainTextFormatter, split on whitespace.                                *)
get_labels(label_out) == split_whitespace(PlainText(label_out))

RECURSIVE Format(_, _, _)
RECURSIVE FormatList(_, _, _)

FormatList(templates, context, labels) ==
    IF templates = <<>> THEN [ok |-> TRUE, out |-> <<>>]
    ELSE LET first == Format(Head(templates), context, labels) IN
         IF ~first.ok THEN first
         ELSE LET rest == FormatList(Tail(templates), context, labels) IN
              IF ~rest.ok THEN rest
              ELSE [ok |-> TRUE, out |-> first.out \o rest.out]

Format(template, context, labels) ==
    IF template.t = "Literal" THEN [ok |-> TRUE, out |-> Emit(template.text, labels)]
    ELSE IF template.t = "FormattablePropertyTemplate"
    THEN LET value == Extract(template.property, context) IN
         IF ~value.ok THEN [ok |-> FALSE, out |-> <<>>]
         ELSE [ok |-> TRUE, out |-> FormatValue(template.kind, value.val, labels)]
    ELSE IF template.t = "LabelTemplate"
    THEN Format(template.content, context, labels \o template.labels)
    ELSE IF template.t = "DynamicLabelTemplate"
    THEN LET label_out == Format(template.label_template, context, <<>>) IN
         IF ~label_out.ok THEN label_out
         ELSE Format(template.content, context, labels \o get_labels(label_out.out))
    ELSE IF template.t = "ConditionalTemplate"
    THEN LET cond == Extract(template.condition, context) IN
         IF ~cond.ok THEN [ok |-> FALSE, out |-> <<>>]
         ELSE IF cond.val THEN Format(template.true_template, context, labels)
         ELSE IF template.false_template # <<>>
         THEN Format(template.false_template[1], context, labels)
         ELSE [ok |-> TRUE, out |-> <<>>]
    ELSE FormatList(template.templates, context, labels)

(* ----------------------------------------------------------------------- *)
(* Syntax trees (the Pairs of template.pest)                               *)
(* ----------------------------------------------------------------------- *)
Ident(n) == [rule |-> "identifier", name |-> n]
Raw(text) == [rule |-> "raw_literal", str |-> text]
Esc(ch) == [rule |-> "escape", str |-> <<"\\", ch>>]
Lit(parts) == [rule |-> "literal", parts |-> parts]
Function(n, args) == [rule |-> "function", name |-> Ident(n), args |-> args]
Term(expr, calls) ==
    [rule |-> "term", expr |-> expr,
     maybe_method |-> [rule |-> "maybe_method", calls |-> calls]]
Template(terms) == [rule |-> "template", terms |-> terms]
EOI == [rule |-> "EOI"]

One(expr) == Template(<<Term(expr, <<>>)>>)
Call(m) == Function(m, <<>>)

SeqsUpTo(S, n) == UNION {[1..k -> S] : k \in 0..n}

(* ----------------------------------------------------------------------- *)
(* The enumerated template sources                                         *)
(* ----------------------------------------------------------------------- *)
Keywords == StringKeywords \cup IdKeywords \cup SignatureKeywords \cup BooleanKeywords
IdentNames == Keywords \cup {"bogus"}
MethodNames == {"first_line", "short", "shortest_prefix_and_brackets",
                "shortest_styled_prefix", "name", "email", "timestamp", "ago",
                "bogus_method"}
FunctionNames == {"label", "if", "bogus_fn"}

LitEmpty == Lit(<<>>)
LitA == Lit(<<Raw(<<"a">>)>>)
LitAB == Lit(<<Raw(<<"a", " ", "b">>)>>)
LitLines == Lit(<<Raw(<<"b">>), Esc("n"), Raw(<<"a">>)>>)
LitC == Lit(<<Raw(<<"c">>)>>)

(* method calls: every method name without arguments, and one call whose   *)
(* argument is an unknown identifier                                       *)
MethodCalls ==
    {Call(m) : m \in MethodNames} \cup {Function("first_line", <<One(Ident("bogus"))>>)}
Chains == SeqsUpTo(MethodCalls, MaxChain)
ShortChains == SeqsUpTo({Call(m) : m \in {"first_line", "short", "bogus_method"}}, 1)

ChainPrimaries ==
    {LitEmpty, LitLines, Ident("description"), Ident("commit_id"), Ident("author"),
     Ident("empty")}

(* terms with a literal or identifier primary *)
SimpleTerms ==
    {Term(Ident(n), <<>>) : n \in IdentNames}
    \cup {Term(l, <<>>) : l \in {LitEmpty, LitA, LitAB, LitLines, LitC}}
    \cup {Term(x, c) : x \in ChainPrimaries, c \in Chains}

(* templates used as the later arguments of a function *)
BranchTemplates == {One(LitC), One(Ident("description")), One(Ident("bogus"))}

(* templates used as the branches of an `if` and the content of a `label` *)
ContentTemplates ==
    BranchTemplates
    \cup {One(LitEmpty), One(LitA),
          Template(<<Term(Ident("author"), <<Call("name")>>)>>),
          Template(<<Term(Ident("description"), <<Call("first_line")>>)>>),
          Template(<<Term(LitA, <<>>), Term(Ident("commit_id"), <<>>)>>),
          One(Function("label", <<One(LitAB), One(Ident("empty"))>>))}

(* templates used as the first argument of a function *)
CondTemplates ==
    {One(Ident("description")), One(Ident("empty")), One(Ident("commit_id")),
     One(Ident("author")), One(Ident("bogus")), One(LitAB), One(LitEmpty),
     Template(<<Term(Ident("commit_id"), <<Call("shortest_styled_prefix")>>)>>),
     Template(<<Term(Ident("commit_id"), <<Call("short")>>)>>),
     Template(<<Term(Ident("author"), <<Call("timestamp")>>)>>),
     Template(<<Term(Ident("author"), <<Call("name")>>)>>),
     Template(<<Term(Ident("description"), <<Call("first_line")>>)>>),
     Template(<<Term(LitA, <<>>), Term(Ident("description"), <<>>)>>),
     One(Template(<<Term(Ident("description"), <<>>)>>)),
     One(Template(<<Term(Ident("conflict"), <<>>), Term(LitA, <<>>)>>)),
     One(Function("label", <<One(LitA), One(LitC)>>)),
     One(Function("if", <<One(Ident("empty")), One(LitA)>>))}

ArgLists ==
    {<<>>} \cup {<<c>> \o rest : c \in CondTemplates,
                                rest \in SeqsUpTo(BranchTemplates, MaxArgs - 1)}
    \cup {<<c, a>> : c \in CondTemplates, a \in ContentTemplates}
    \cup {<<c, a, b>> : c \in {One(Ident("description")), One(Ident("empty")),
                               One(LitEmpty),
                               Template(<<Term(Ident("author"), <<Call("name")>>)>>)},
                        a \in ContentTemplates, b \in ContentTemplates}

FunctionTerms ==
    {Term(Function(f, args), <<>>) : f \in FunctionNames, args \in ArgLists}
    \cup {Term(Function(f, <<c, One(LitC)>>), m) :
            f \in FunctionNames,
            c \in {One(Ident("description")), One(LitAB)},
            m \in ShortChains}

(* parenthesised templates followed by a method chain *)
ParenTemplates ==
    {One(Ident(n)) : n \in {"description", "commit_id", "author", "empty", "bogus"}}
    \cup {One(LitLines), One(LitEmpty),
          Template(<<Term(Ident("commit_id"), <<Call("short")>>)>>),
          Template(<<Term(LitA, <<>>), Term(Ident("description"), <<>>)>>),
          One(Function("label", <<One(LitA), One(LitC)>>))}
ParenTerms == {Term(t, c) : t \in ParenTemplates, c \in SeqsUpTo(MethodCalls, 1)}

ListTerms ==
    {Term(LitA, <<>>), Term(LitAB, <<>>), Term(Ident("description"), <<>>),
     Term(Ident("bogus"), <<>>), Term(Ident("author"), <<Call("email")>>),
     Term(Function("if", <<One(Ident("empty")), One(LitC)>>), <<>>),
     Term(Template(<<Term(LitC, <<>>), Term(LitC, <<>>)>>), <<>>)}
Lists == {l \in SeqsUpTo(ListTerms, MaxTerms) : Len(l) >= 2}

Sources ==
    {EOI}
    \cup {Template(<<t>>) : t \in SimpleTerms \cup FunctionTerms \cup ParenTerms}
    \cup {Template(l) : l \in Lists}

(* ----------------------------------------------------------------------- *)
(* The state machine: a template source is parsed once                     *)
(* (parse_commit_template); the built renderer is then run on commits.     *)
(* ----------------------------------------------------------------------- *)
VARIABLES source, pc, expression, template, commit, output
vars == <<source, pc, expression, template, commit, output>>

None == [tag |-> "None"]
NoCommit == [none |-> TRUE]
NoOutput == [ok |-> TRUE, out |-> <<>>]

Init ==
    /\ source \in Sources
    /\ pc = "parse"
    /\ expression = None
    /\ template = None
    /\ commit = NoCommit
    /\ output = NoOutput

ParseCommitTemplate ==
    /\ pc = "parse"
    /\ expression' = TopExpression(source)
    /\ template' = Realized(expression')
    /\ pc' = IF IsPanic(template') THEN "panicked" ELSE "built"
    /\ UNCHANGED <<source, commit, output>>

Render(c) ==
    /\ pc = "built"
    /\ commit' = c
    /\ output' = Format(template.template, c, <<>>)
    /\ pc' = IF output'.ok THEN "built" ELSE "aborted"
    /\ UNCHANGED <<source, expression, template>>

Next ==
    \/ ParseCommitTemplate
    \/ \E c \in Commits : Render(c)

Spec == Init /\ [][Next]_vars

(* ----------------------------------------------------------------------- *)
(* Shapes of the source                                                    *)
(* ----------------------------------------------------------------------- *)
SingleTerm == source.rule = "template" /\ Len(source.terms) = 1
TheTerm == source.terms[1]
Primary == TheTerm.expr
Calls == TheTerm.maybe_method.calls
CallNames == [i \in 1..Len(Calls) |-> Calls[i].name.name]
Rendered == commit # NoCommit

(* the source is one term whose primary is a literal or a known identifier *)
SimplePrimary ==
    /\ SingleTerm
    /\ \/ Primary.rule = "literal"
       \/ Primary.rule = "identifier" /\ Primary.name \in Keywords

PrimaryKind ==
    IF Primary.rule = "literal" \/ Primary.name \in StringKeywords THEN "String"
    ELSE IF Primary.name \in IdKeywords THEN "CommitOrChangeId"
    ELSE IF Primary.name \in SignatureKeywords THEN "Signature"
    ELSE "Boolean"

(* ----------------------------------------------------------------------- *)
(* C2                                                                      *)
(* ----------------------------------------------------------------------- *)
DispatchTable ==
    { <<"String", "first_line", "String">>,
      <<"CommitOrChangeId", "short", "String">>,
      <<"CommitOrChangeId", "shortest_prefix_and_brackets", "String">>,
      <<"CommitOrChangeId", "shortest_styled_prefix", "IdWithHighlightedPrefix">>,
      <<"Signature", "name", "String">>,
      <<"Signature", "email", "String">>,
      <<"Signature", "timestamp", "Timestamp">>,
      <<"Timestamp", "ago", "String">> }

TableKind(kind, method) ==
    IF \E e \in DispatchTable : e[1] = kind /\ e[2] = method
    THEN (CHOOSE e \in DispatchTable : e[1] = kind /\ e[2] = method)[3]
    ELSE "fails"

RECURSIVE ChainKind(_, _)
ChainKind(kind, names) ==
    IF names = <<>> \/ kind = "fails" THEN kind
    ELSE ChainKind(TableKind(kind, Head(names)), Tail(names))

ExpectedLabels ==
    (IF Primary.rule = "identifier" THEN <<<<Primary.name>>>> ELSE <<>>)
    \o [i \in 1..Len(Calls) |-> <<Calls[i].name.name>>]

TextPrimary ==
    /\ SingleTerm
    /\ \/ Primary.rule = "literal"
       \/ Primary.rule = "identifier" /\ Primary.name \in StringKeywords

FirstLineCalls ==
    /\ Calls # <<>>
    /\ \A i \in 1..Len(Calls) : Calls[i].name.name = "first_line"

PrimaryText(c) ==
    IF Primary.rule = "literal" THEN parse_string_literal(Primary).text
    ELSE c[Primary.name]

(* every receiver of n successive first_line calls on `text` has a line *)
RECURSIVE HasLines(_, _)
HasLines(text, n) ==
    IF n = 0 THEN TRUE ELSE text # <<>> /\ HasLines(UpToNewline(text), n - 1)

(* C10: for a literal or text identifier X followed by first_line calls,   *)
(* construction never panics (the empty literal included) and yields the   *)
(* unevaluated composition of the receiver and the method; rendering a     *)
(* commit aborts iff some receiver of first_line evaluates on that commit  *)
(* to a text with no line.                                                 *)
C10_LazyFirstLine ==
    (TextPrimary /\ FirstLineCalls) =>
        /\ pc # "panicked"
        /\ pc # "parse" =>
            /\ expression.tag = "Property"
            /\ expression.pl.property.property.p = "TemplateFunction"
            /\ expression.pl.property.property.fn.second.p = "TemplatePropertyFn"
        /\ Rendered => (output.ok <=> HasLines(PrimaryText(commit), Len(Calls)))
        /\ pc = "aborted" => Rendered /\ ~output.ok

C10_Witness ==
    /\ pc = "aborted"
    /\ source = Template(<<Term(LitEmpty, <<Call("first_line")>>)>>)
    /\ expression.pl.property.kind = "String"

(* ----------------------------------------------------------------------- *)
(* Function terms                                                          *)
(* ----------------------------------------------------------------------- *)
IsFunctionTerm(f) ==
    SingleTerm /\ Primary.rule = "function" /\ Primary.name.name = f
Args == Primary.args
ArgExpression(i) == parse_commit_template_rule(Args[i])
ArgsValid == \A i \in 1..Len(Args) : ~IsPanic(ArgExpression(i))
ArgOutput(i) == Format(Expression_into_template(ArgExpression(i)), commit, <<>>)

(* ----------------------------------------------------------------------- *)
(* C3                                                                      *)
(* ----------------------------------------------------------------------- *)
(* C3: rendering a built if(cond, A, B) or if(cond, A) on a commit emits   *)
(* exactly A's output when cond is true on the commit, exactly B's output  *)
(* when it is false and B is present, and nothing when it is false and B   *)
(* is absent; a text cond is true iff the text is not empty.               *)
C3_IfRenders ==
    (IsFunctionTerm("if") /\ Rendered) =>
        LET cond == ArgExpression(1).pl.property
            value == Extract(cond.property, commit)
            truth == IF cond.kind = "String" THEN value.val # <<>> ELSE value.val
        IN IF ~value.ok THEN ~output.ok
           ELSE IF truth THEN output = ArgOutput(2)
           ELSE IF Len(Args) = 3 THEN output = ArgOutput(3)
           ELSE output = [ok |-> TRUE, out |-> <<>>]

C3_Witness ==
    /\ source = One(Function("if", <<One(Ident("description")), One(LitA), One(LitC)>>))
    /\ Rendered
    /\ commit.description = <<>>
    /\ PlainText(output.out) = <<"c">>

(* ----------------------------------------------------------------------- *)
(* C4                                                                      *)
(* ----------------------------------------------------------------------- *)
WithLabels(out, labels) ==
    [i \in 1..Len(out) |-> [text |-> out[i].text, labels |-> labels \o out[i].labels]]

IsNotWhitespace(ch) == ~IsWhitespace(ch)

(* C4: rendering a built label(X, Y) on a commit emits exactly the output  *)
(* of Y on that commit, under the labels that are the whitespace-separated *)
(* words, in order, of the plain text X renders on that same commit.       *)
C4_LabelRenders ==
    (IsFunctionTerm("label") /\ Rendered) =>
        LET X == ArgOutput(1)
            Y == ArgOutput(2)
            plain == PlainText(X.out)
            words == split_whitespace(plain)
        IN IF ~X.ok \/ ~Y.ok THEN ~output.ok
           ELSE /\ output.ok
                /\ PlainText(output.out) = PlainText(Y.out)
                /\ output.out = WithLabels(Y.out, words)
                /\ \A i \in 1..Len(words) :
                        words[i] # <<>> /\ SelectSeq(words[i], IsWhitespace) = <<>>
                /\ Concat(words) = SelectSeq(plain, IsNotWhitespace)

C4_Witness ==
    /\ source = One(Function("label", <<One(Ident("description")), One(LitC)>>))
    /\ Rendered
    /\ commit.description = <<"b", NL, "a">>
    /\ output.out = <<[text |-> <<"c">>, labels |-> <<<<"b">>, <<"a">>>>]>>

(* ----------------------------------------------------------------------- *)
(* C5                                                                      *)
(* ----------------------------------------------------------------------- *)
(* C5: a template node with one child term reduces to that term's          *)
(* expression unchanged; with any other number of child terms it reduces   *)
(* to a ListTemplate of the realized child terms in source order, and      *)
(* rendering a commit emits the children's outputs concatenated in that    *)
(* order.                                                                  *)
C5_TemplateReduction ==
    (pc # "parse" /\ source.rule = "template" /\ ~IsPanic(expression)) =>
        LET n == Len(source.terms)
            child == [i \in 1..n |-> parse_commit_term(source.terms[i])]
            outs == [i \in 1..n |->
                        Format(Expression_into_template(child[i]), commit, <<>>)]
        IN IF n = 1 THEN expression = child[1]
           ELSE /\ expression.tag = "Template"
                /\ expression.template.t = "ListTemplate"
                /\ expression.template.templates =
                        [i \in 1..n |-> Expression_into_template(child[i])]
                /\ Rendered =>
                    IF \A i \in 1..n : outs[i].ok
                    THEN /\ output.ok
                         /\ output.out = Concat([i \in 1..n |-> outs[i].out])
                    ELSE ~output.ok

C5_Witness ==
    /\ source = Template(<<Term(LitA, <<>>), Term(LitAB, <<>>), Term(LitA, <<>>)>>)
    /\ Rendered
    /\ expression.template.t = "ListTemplate"
    /\ PlainText(output.out) = <<"a", "a", " ", "b", "a">>

(* ----------------------------------------------------------------------- *)
(* C6                                                                      *)
(* ----------------------------------------------------------------------- *)
CondCoercible == Expression_try_into_boolean(ArgExpression(1)).some

(* C6: construction panics when label is called with an argument count     *)
(* other than two and when if is called with an argument count other than  *)
(* two or three; with two arguments for label, or two or three for if,     *)
(* each of which builds on its own (and a coercible condition), it builds  *)
(* a Template expression, which is not chainable.                          *)
C6_ArgumentCounts ==
    pc # "parse" =>
        /\ IsFunctionTerm("label") =>
            /\ Len(Args) # 2 => pc = "panicked"
            /\ (Len(Args) = 2 /\ ArgsValid) =>
                /\ pc # "panicked"
                /\ expression.tag = "Template"
                /\ expression.template.t = "DynamicLabelTemplate"
        /\ IsFunctionTerm("if") =>
            /\ Len(Args) \notin {2, 3} => pc = "panicked"
            /\ (Len(Args) \in {2, 3} /\ ArgsValid /\ CondCoercible) =>
                /\ pc # "panicked"
                /\ expression.tag = "Template"
                /\ expression.template.t = "ConditionalTemplate"

C6_Witness ==
    /\ source = One(Function("label", <<One(LitAB), One(LitC), One(LitC)>>))
    /\ pc = "panicked"
    /\ template.msg = "label() accepts only two arguments"

(* ----------------------------------------------------------------------- *)
(* C7                                                                      *)
(* ----------------------------------------------------------------------- *)
(* C7: an if whose condition argument builds on its own is built only if   *)
(* the condition is a value of kind String or Boolean; a condition of any  *)
(* other kind, or one that is a Template (a list, a label, an if), makes   *)
(* construction panic, so no renderer is built and nothing is rendered.    *)
C7_ConditionKinds ==
    (pc # "parse" /\ IsFunctionTerm("if") /\ Len(Args) >= 1
        /\ ~IsPanic(ArgExpression(1))) =>
        LET cond == ArgExpression(1)
            boolish == /\ cond.tag = "Property"
                       /\ cond.pl.property.kind \in {"String", "Boolean"}
        IN /\ pc \in {"built", "aborted"} => boolish
           /\ ~boolish =>
                /\ pc = "panicked"
                /\ template.msg = "cannot yet use this as boolean"
                /\ ~Rendered

C7_Witness ==
    /\ source = One(Function("if",
            <<Template(<<Term(Ident("author"), <<Call("timestamp")>>)>>), One(LitC)>>))
    /\ pc = "panicked"
    /\ template.msg = "cannot yet use this as boolean"

(* ----------------------------------------------------------------------- *)
(* C1                                                                      *)
(* ----------------------------------------------------------------------- *)
KnownMethods == {e[2] : e \in DispatchTable}

(* the names in a node that are no keyword, no function and no method of   *)
(* any kind; the arguments of a method call are not looked into            *)
RECURSIVE UnknownTokens(_)
UnknownTokens(node) ==
    IF node.rule = "template"
    THEN UNION {UnknownTokens(node.terms[i]) : i \in 1..Len(node.terms)}
    ELSE IF node.rule = "term"
    THEN UnknownTokens(node.expr)
         \cup ({node.maybe_method.calls[i].name.name :
                    i \in 1..Len(node.maybe_method.calls)} \ KnownMethods)
    ELSE IF node.rule = "identifier"
    THEN (IF node.name \in Keywords THEN {} ELSE {node.name})
    ELSE IF node.rule = "function"
    THEN (IF node.name.name \in {"label", "if"} THEN {} ELSE {node.name.name})
         \cup UNION {UnknownTokens(node.args[j]) : j \in 1..Len(node.args)}
    ELSE {}

(* C1: a template source that contains an unknown identifier, function or  *)
(* method name, wherever it occurs, never yields a renderer: construction  *)
(* panics.                                                                 *)
C1_UnknownTokenFails ==
    (pc # "parse" /\ source.rule = "template" /\ UnknownTokens(source) # {}) =>
        pc = "panicked"

(* ----------------------------------------------------------------------- *)
(* C8                                                                      *)
(* ----------------------------------------------------------------------- *)
(* C8: the method chain that follows a parenthesised template is applied   *)
(* to the expression of that template: the term has the kind the dispatch  *)
(* table gives for the chain and carries every method name of the chain as *)
(* a label; a chain the table does not resolve makes construction panic.   *)
C8_ChainAfterTemplate ==
    (pc # "parse" /\ SingleTerm /\ Primary.rule = "template") =>
        LET inner == parse_commit_template_rule(Primary) IN
        (~IsPanic(inner) /\ inner.tag = "Property") =>
            LET kind == ChainKind(inner.pl.property.kind, CallNames) IN
            IF kind = "fails" THEN pc = "panicked"
            ELSE /\ expression.tag = "Property"
                 /\ expression.pl.property.kind = kind
                 /\ expression.pl.labels =
                        inner.pl.labels \o [i \in 1..Len(Calls) |-> <<Calls[i].name.name>>]

====
